---- MODULE Spec2Model ----
(***************************************************************************)
(* Model of MockMqttBroker                                                 *)
(* (src/core/export-gateway/tests/unit/mock_mqtt_broker.py).               *)
(*                                                                         *)
(* Threads: the caller's thread (start, stop, get_published_messages,      *)
(* clear_messages), the accept thread (accept_clients) and one handler     *)
(* thread per accepted connection (handle_client, parse_publish).          *)
(* Bytes are integers 0..255; a bytes object is a sequence of them; a str  *)
(* is the sequence of its code points.  A socket is named by the number of *)
(* its connection.  recv() on a TCP stream returns whatever bytes have     *)
(* arrived, so the value it returns is drawn from Chunks, which holds      *)
(* single packets, a truncated packet, a fragment and two packets that     *)
(* arrived together.                                                       *)
(***************************************************************************)
EXTENDS Integers, Sequences, FiniteSets, TLC

\* ------------------------------------------------------------- bounds
MaxConns == 2          \* connections the peer side opens
MaxRecv == 4           \* chunks that arrive, over all connections

MaxRequests == 4       \* requests the HTTP server answers between two resets
MaxTimes == 2          \* the largest N of /retry/fail/N

Conns == 1..MaxConns

\* ------------------------------------------------------- byte helpers
\* (b >> 4) & 0x0F
PacketType(b) == (b \div 16) % 16

\* (b >> 1) & 0x03
QosOf(b) == (b \div 2) % 4

\* (b & 0x01) == 1
RetainOf(b) == (b % 2) = 1

\* data[a:b] of Python (0-based, end exclusive, clipped to the length)
Slice(data, a, b) ==
    LET hi == IF b > Len(data) THEN Len(data) ELSE b
    IN  IF a >= hi THEN <<>> ELSE [i \in 1..(hi - a) |-> data[a + i]]

\* struct.unpack('>H', two)[0]; raises struct.error unless len(two) = 2
UnpackH(two) == two[1] * 256 + two[2]

\* struct.pack('>H', n)
PackH(n) == <<(n \div 256) % 256, n % 256>>

IsCont(b) == b >= 128 /\ b <= 191

\* bytes.decode('utf-8', errors='ignore'): the code points of the well-formed
\* sequences, the bytes of ill-formed ones dropped.  One-, two- and three-byte
\* forms are decoded; the lead bytes 0xF0..0xF4 of four-byte forms do not
\* occur in Chunks and are dropped like the never-valid 0xC0, 0xC1, 0xF5..0xFF.
\* Bytes that are all ASCII decode to themselves.
RECURSIVE Utf8Ignore(_)
Utf8Ignore(bs) ==
    IF \A i \in DOMAIN bs : bs[i] < 128 THEN bs
    ELSE LET b1 == bs[1]
             n  == Len(bs)
         IN  IF b1 < 128
                THEN <<b1>> \o Utf8Ignore(Tail(bs))
             ELSE IF b1 >= 194 /\ b1 <= 223 /\ n >= 2 /\ IsCont(bs[2])
                THEN <<(b1 - 192) * 64 + (bs[2] - 128)>>
                         \o Utf8Ignore(Slice(bs, 2, n))
             ELSE IF b1 >= 224 /\ b1 <= 239 /\ n >= 3
                     /\ IsCont(bs[2]) /\ IsCont(bs[3])
                     /\ (b1 = 224 => bs[2] >= 160)
                     /\ (b1 = 237 => bs[2] <= 159)
                THEN <<(b1 - 224) * 4096 + (bs[2] - 128) * 64 + (bs[3] - 128)>>
                         \o Utf8Ignore(Slice(bs, 3, n))
             ELSE Utf8Ignore(Tail(bs))

\* ------------------------------------------------------ wire constants
\* CONNACK with return code 5 (not authorized) in place of 0.
ConnackRefused == <<32, 2, 0, 5>>

CONNACK == <<32, 2, 0, 0>>         \* bytes([0x20, 0x02, 0x00, 0x00])
\* The PINGREQ sent back in place of a PINGRESP.
PingreqEchoed == <<192, 0>>

PINGRESP == <<208, 0>>             \* bytes([0xD0, 0x00])
PubackHeader == <<64, 2>>          \* bytes([0x40, 0x02])

\* ------------------------------------------------ what the peer sends
\* One packet each; a PUBLISH carries topic "a" (or "bc") and a one-byte payload.
PktConnect == <<16, 0>>
PktPub0 == <<48, 4, 0, 1, 97, 120>>                \* qos 0, "a", "x"
PktPub1 == <<50, 7, 0, 2, 98, 99, 0, 7, 121>>      \* qos 1, "bc", id 7, "y"
PktPub2 == <<52, 6, 0, 1, 97, 0, 9, 122>>          \* qos 2, "a", id 9, "z"
PktPingreq == <<192, 0>>
PktDisconnect == <<224, 0>>
PktSubscribe == <<130, 0>>
\* a qos-1 PUBLISH cut off after its topic length
PktPub1Cut == <<50, 7, 0, 2>>
\* the first byte alone of a packet that arrived in two pieces
Fragment == <<48>>

Packets ==
    {PktConnect, PktPub0, PktPub1, PktPub2, PktPingreq, PktDisconnect,
     PktSubscribe}

\* what one recv() may return
Chunks ==
    Packets \cup {PktPub1Cut, Fragment, PktPub0 \o PktPub1}

\* what recv() may return where several connections publish at once
PublisherChunks ==
    {PktConnect, PktPub0, PktPub0 \o PktPub1, PktPub1Cut, PktPingreq}

\* Well-formed PUBLISH packets that differ in flags, in the encoded length of
\* the remaining length, and in what the payload holds.
PubRetain == <<49, 4, 0, 1, 97, 120>>              \* qos 0, retain, "a", "x"
\* remaining length 130 on two bytes (0x82 0x01): qos 1, "a", id 7, 125 times "x"
PubLong == <<50, 130, 1, 0, 1, 97, 0, 7>> \o [i \in 1..125 |-> 120]
PubBinary == <<48, 4, 0, 1, 97, 255>>              \* qos 0, "a", the byte 0xFF
PubAccent == <<48, 5, 0, 1, 97, 195, 169>>         \* qos 0, "a", U+00E9 in UTF-8
PubEmpty == <<48, 3, 0, 1, 97>>                    \* qos 0, "a", empty payload
\* both quality-of-service bits set: flags a client can send, though no
\* well-formed PUBLISH has them
PubQos3 == <<54, 6, 0, 1, 97, 0, 9, 122>>

ParserPublishes ==
    {PubRetain, PktPub1, PktPub2, PubLong, PubBinary, PubAccent, PubEmpty}

\* what recv() may return where the decoding of PUBLISH is looked at
ParserChunks ==
    ParserPublishes \cup {PubQos3, PktConnect, PktPingreq, PktPub1Cut}

\* The loop of lines 136-142 if it read one byte whatever its 0x80 bit.
RemainingLengthOneByte(data, pos, remaining_length, multiplier) ==
    IF pos < Len(data)
       THEN [pos |-> pos,
             remaining_length |-> remaining_length + (data[pos + 1] % 128) * multiplier]
       ELSE [pos |-> pos, remaining_length |-> remaining_length]

\* what recv() may return where one connection is looked at beside another
PairChunks == {PktConnect, PktPub0, PktPub1Cut, PktPingreq}

\* what recv() may return where the order of the records is looked at
OrderChunks == {PktConnect, PktPub0, PktPub1, PktPub1Cut, PktPingreq}

\* ------------------------------------------------------- parse_publish
\* The loop of lines 136-142 from position pos on: [pos, remaining_length]
\* when it ends (at the first byte without 0x80, or at the end of data).
RECURSIVE RemainingLengthLoop(_, _, _, _)
RemainingLengthLoop(data, pos, remaining_length, multiplier) ==
    IF pos < Len(data)
       THEN LET byte == data[pos + 1]
                rl   == remaining_length + (byte % 128) * multiplier
            IN  IF byte < 128
                   THEN [pos |-> pos, remaining_length |-> rl]
                   ELSE RemainingLengthLoop(data, pos + 1, rl, multiplier * 128)
       ELSE [pos |-> pos, remaining_length |-> remaining_length]

\* The position of the packet identifier's end, i.e. of the payload's start.
PayloadStart(qos, afterTopic) == IF qos > 0 THEN afterTopic + 2 ELSE afterTopic

\* parse_publish up to the lock: [ok |-> FALSE] where it returns early,
\* otherwise the dict it appends, without its timestamp.  data is not empty
\* (the caller has read data[0]).
parse_publish(data) ==
    LET qos    == QosOf(data[1])
        retain == RetainOf(data[1])
        pos1   == RemainingLengthLoop(data, 1, 0, 1).pos + 1
        topic_len == UnpackH(Slice(data, pos1, pos1 + 2))
        pos2   == pos1 + 2
        pos3   == pos2 + topic_len
    IN  IF pos1 + 2 > Len(data) THEN [ok |-> FALSE]
        ELSE IF pos2 + topic_len > Len(data) THEN [ok |-> FALSE]
        ELSE IF qos > 0 /\ pos3 + 2 > Len(data) THEN [ok |-> FALSE]
        ELSE [ok |-> TRUE,
              topic |-> Utf8Ignore(Slice(data, pos2, pos3)),
              payload |-> Utf8Ignore(Slice(data, PayloadStart(qos, pos3), Len(data))),
              qos |-> qos,
              retain |-> retain]

\* Lines 92-98: the bytes written after parse_publish has returned, <<>> for none.
PubackIdBytes(pub_data) == Slice(pub_data, 2, 4)

\* PubackFor without the test of line 95: every quality of service above 0 is
\* answered.
PubackForAnyQos(pub_data) ==
    LET qos == QosOf(pub_data[1])
    IN  IF qos > 0 /\ Len(pub_data) >= 4
           THEN PubackHeader \o PackH(UnpackH(PubackIdBytes(pub_data)))
           ELSE <<>>

PubackFor(pub_data) ==
    LET qos == QosOf(pub_data[1])
    IN  IF qos > 0 /\ Len(pub_data) >= 4 /\ qos = 1
           THEN PubackHeader \o PackH(UnpackH(PubackIdBytes(pub_data)))
           ELSE <<>>

\* The PUBLISH packets the peer put into a chunk, in order (a chunk is a run of
\* whole packets, possibly followed by a piece of one).
RECURSIVE PublishesIn(_)
PublishesIn(chunk) ==
    LET heads == {p \in Packets :
                    Len(p) <= Len(chunk) /\ Slice(chunk, 0, Len(p)) = p}
    IN  IF chunk = <<>> \/ heads = {} THEN <<>>
        ELSE LET p == CHOOSE q \in heads : TRUE
             IN  (IF PacketType(p[1]) = 3 THEN <<p>> ELSE <<>>)
                     \o PublishesIn(Slice(chunk, Len(p), Len(chunk)))

\* --------------------------------------------------------------- state
VARIABLES
    peer,                \* the peer side: the connections it opens, what arrives on them, in how many chunks
    running,             \* self.running
    server_socket,       \* self.server_socket: "none", "listening", "closed"
    clients,             \* self.clients: a list of sockets
    published_messages,  \* self.published_messages: a list of dicts
    lock,                \* self.lock: the thread holding it, or Free
    phase,               \* the broker's life: "init", "started", "stopped"
    mpc,                 \* where the caller's thread is
    result,              \* what the caller's last get_published_messages() returned
    apc,                 \* where the accept thread is
    client_socket,       \* accept_clients' local client_socket (0: none)
    accepted,            \* number of connections accept() has returned
    hpc,                 \* per connection: where its handler thread is
    data,                \* per connection: the handler's data / pub_data while in use
    wire,                \* per connection: the bytes of each send(), in order
    closed,              \* per connection: close() was called on its socket
    nrecv,               \* chunks that have arrived so far, over all connections
    clock,               \* datetime.now(), as the number of appends so far
    origin,              \* history: the connection of each record of the store
    sentPubs,            \* history: per connection, the PUBLISH packets read in the loop
    disconnected,        \* history: per connection, the last chunk read in the loop was a DISCONNECT
    appended,            \* history: per connection, the records it appended
    registered,          \* history: connections accept_clients appended after stop() returned
    liveAtStop,          \* history: connections accepted when stop() was called
    takenCleared,        \* history: result was taken with no append since a clear_messages()
    cleared,             \* history: no append since the caller's last clear_messages()
    request_count,       \* mock_http_server: the global request_count
    auth_fail_count,     \* mock_http_server: the global auth_fail_count
    answered             \* history: the requests the HTTP server has answered since its start or last reset

vars ==
    <<peer, running, server_socket, clients, published_messages, lock, phase, mpc,
      result, apc, client_socket, accepted, hpc, data, wire, closed, nrecv,
      clock, origin, sentPubs, disconnected, appended, registered, liveAtStop, takenCleared, cleared,
      request_count, auth_fail_count, answered>>

brokerVars == <<peer, running, server_socket, phase>>
httpVars == <<request_count, auth_fail_count, answered>>
callerVars == <<mpc, result, takenCleared>>
acceptVars == <<apc, client_socket, accepted, registered>>
storeVars == <<published_messages, clock, origin, appended, cleared>>

Free == <<"free", 0>>
Caller == <<"caller", 0>>
Acceptor == <<"acceptor", 0>>
Handler(c) == <<"handler", c>>

NoResult == [ref |-> "none", own |-> <<>>]

\* The list a result of get_published_messages() is, as it reads now.
Deref(r) == IF r.ref = "store" THEN published_messages ELSE r.own

\* mock_http_server.py, lines 15-16: the module's counters
InitCounters ==
    /\ request_count = 0
    /\ auth_fail_count = 0
    /\ answered = <<>>

InitBroker ==
    /\ running = FALSE
    /\ server_socket = "none"
    /\ clients = <<>>
    /\ published_messages = <<>>
    /\ lock = Free
    /\ phase = "init"
    /\ mpc = "idle"
    /\ result = NoResult
    /\ apc = "none"
    /\ client_socket = 0
    /\ accepted = 0
    /\ hpc = [c \in Conns |-> "none"]
    /\ data = [c \in Conns |-> <<>>]
    /\ wire = [c \in Conns |-> <<>>]
    /\ closed = [c \in Conns |-> FALSE]
    /\ nrecv = 0
    /\ clock = 0
    /\ origin = <<>>
    /\ sentPubs = [c \in Conns |-> <<>>]
    /\ disconnected = [c \in Conns |-> FALSE]
    /\ appended = [c \in Conns |-> 0]
    /\ registered = {}
    /\ liveAtStop = {}
    /\ takenCleared = FALSE
    /\ cleared = FALSE

\* ------------------------------------------------------- list helpers
Range(f) == {f[i] : i \in DOMAIN f}

\* list.remove(x): the list without its first x
ListRemove(l, x) ==
    LET i == CHOOSE j \in 1..Len(l) : l[j] = x /\ \A k \in 1..(j - 1) : l[k] # x
    IN  [k \in 1..(Len(l) - 1) |-> IF k < i THEN l[k] ELSE l[k + 1]]

\* recv(bufsize): at most bufsize of the bytes that have arrived
RecvFirstSize == 1024
RecvSize == 4096

\* --------------------------------------------------------- the store
\* StoreAppend if the record were put at the head of the list.
StoreInsertFirst(msgs, rec, now) ==
    <<[topic |-> rec.topic, payload |-> rec.payload, qos |-> rec.qos,
       retain |-> rec.retain, timestamp |-> now]>> \o msgs

\* lines 169-176: the list after the append
StoreAppend(msgs, rec, now) ==
    Append(msgs, [topic |-> rec.topic, payload |-> rec.payload, qos |-> rec.qos,
                  retain |-> rec.retain, timestamp |-> now])

\* get_published_messages returning self.published_messages itself
get_published_messages_alias(msgs) == [ref |-> "store", own |-> <<>>]

\* get_published_messages: list(self.published_messages), a new list
get_published_messages(msgs) == [ref |-> "own", own |-> msgs]

\* clear_messages dropping the oldest record only
clear_messages_oldest(msgs) == IF msgs = <<>> THEN <<>> ELSE Tail(msgs)

\* clear_messages: self.published_messages.clear()
clear_messages(msgs) == <<>>

\* ------------------------------------------------- the caller's thread
\* start(), lines 24-36
Start ==
    /\ phase = "init" /\ mpc = "idle"
    /\ server_socket' = "listening"
    /\ running' = TRUE
    /\ apc' = "loop"
    /\ phase' = "started"
    /\ UNCHANGED <<peer, httpVars, clients, lock, mpc, result, takenCleared, client_socket, accepted,
                   registered, hpc, data, wire, closed, nrecv, sentPubs, disconnected,
                   liveAtStop, storeVars>>

\* stop(), line 195
StopClearRunning ==
    /\ phase = "started" /\ mpc = "idle"
    /\ running' = FALSE
    /\ mpc' = "stop_lock"
    /\ liveAtStop' = 1..accepted
    /\ UNCHANGED <<peer, httpVars, server_socket, clients, lock, phase, result, takenCleared, acceptVars,
                   hpc, data, wire, closed, nrecv, sentPubs, disconnected, storeVars>>

\* stop(), lines 198-204, the lock taken
StopCloseClients ==
    /\ mpc = "stop_lock" /\ lock = Free
    /\ lock' = Caller
    /\ closed' = [c \in Conns |-> closed[c] \/ c \in Range(clients)]
    /\ clients' = <<>>
    /\ mpc' = "stop_unlock"
    /\ UNCHANGED <<brokerVars, httpVars, result, takenCleared, acceptVars, hpc, data, wire, nrecv,
                   sentPubs, disconnected, liveAtStop, storeVars>>

\* stop(), the end of the with block
StopUnlock ==
    /\ mpc = "stop_unlock"
    /\ lock' = Free
    /\ mpc' = "stop_server"
    /\ UNCHANGED <<brokerVars, httpVars, clients, result, takenCleared, acceptVars, hpc, data, wire,
                   closed, nrecv, sentPubs, disconnected, liveAtStop, storeVars>>

\* stop(), lines 206-209
StopCloseServer ==
    /\ mpc = "stop_server"
    /\ server_socket' = IF server_socket # "none" THEN "closed" ELSE server_socket
    /\ phase' = "stopped"
    /\ mpc' = "idle"
    /\ UNCHANGED <<peer, httpVars, running, clients, lock, result, takenCleared, acceptVars, hpc, data,
                   wire, closed, nrecv, sentPubs, disconnected, liveAtStop, storeVars>>

\* get_published_messages(), lines 185-186
GetMessages ==
    /\ mpc = "idle" /\ lock = Free
    /\ lock' = Caller
    /\ result' = get_published_messages(published_messages)
    /\ takenCleared' = cleared
    /\ mpc' = "get_unlock"
    /\ UNCHANGED <<brokerVars, httpVars, clients, acceptVars, hpc, data, wire, closed, nrecv,
                   sentPubs, disconnected, liveAtStop, storeVars>>

\* clear_messages(), lines 190-191
ClearMessages ==
    /\ mpc = "idle" /\ lock = Free
    /\ lock' = Caller
    /\ published_messages' = clear_messages(published_messages)
    /\ origin' = <<>>
    /\ cleared' = TRUE
    /\ mpc' = "clear_unlock"
    /\ UNCHANGED <<brokerVars, httpVars, clients, result, takenCleared, acceptVars, hpc, data, wire,
                   closed, nrecv, sentPubs, disconnected, liveAtStop, clock, appended>>

\* the end of either with block
CallerUnlock ==
    /\ mpc \in {"get_unlock", "clear_unlock"}
    /\ lock' = Free
    /\ mpc' = "idle"
    /\ UNCHANGED <<brokerVars, httpVars, clients, result, takenCleared, acceptVars, hpc, data, wire,
                   closed, nrecv, sentPubs, disconnected, liveAtStop, storeVars>>

\* --------------------------------------------------- the accept thread
\* line 40
AcceptLoop ==
    /\ apc = "loop"
    /\ apc' = IF running THEN "accept" ELSE "done"
    /\ UNCHANGED <<brokerVars, httpVars, clients, lock, callerVars, client_socket, accepted,
                   registered, hpc, data, wire, closed, nrecv, sentPubs, disconnected,
                   liveAtStop, storeVars>>

\* lines 42-50: accept() returns a connection and its handler thread starts.
\* A thread already blocked in accept() when the listening socket is closed
\* may still be handed a connection.
Accept ==
    /\ apc = "accept"
    /\ accepted < peer.conns
    /\ accepted' = accepted + 1
    /\ client_socket' = accepted + 1
    /\ hpc' = [hpc EXCEPT ![accepted + 1] = "recv1"]
    /\ apc' = "append"
    /\ UNCHANGED <<brokerVars, httpVars, clients, lock, callerVars, registered, data, wire,
                   closed, nrecv, sentPubs, disconnected, liveAtStop, storeVars>>

\* AcceptCaught if the except block left the loop.
AcceptCaughtEnds ==
    /\ apc = "error"
    /\ apc' = "done"
    /\ UNCHANGED <<brokerVars, httpVars, clients, lock, callerVars, client_socket, accepted,
                   registered, hpc, data, wire, closed, nrecv, sentPubs, disconnected,
                   liveAtStop, storeVars>>

\* lines 55-57: the except block has logged (where self.running) and the loop
\* goes to its next turn
AcceptCaught ==
    /\ apc = "error"
    /\ apc' = "loop"
    /\ UNCHANGED <<brokerVars, httpVars, clients, lock, callerVars, client_socket, accepted,
                   registered, hpc, data, wire, closed, nrecv, sentPubs, disconnected,
                   liveAtStop, storeVars>>

\* lines 42 and 55: accept() raises
AcceptError ==
    /\ apc = "accept"
    /\ apc' = "error"
    /\ UNCHANGED <<brokerVars, httpVars, clients, lock, callerVars, client_socket, accepted,
                   registered, hpc, data, wire, closed, nrecv, sentPubs, disconnected,
                   liveAtStop, storeVars>>

\* lines 52-53, the lock taken
AcceptAppend ==
    /\ apc = "append" /\ lock = Free
    /\ lock' = Acceptor
    /\ clients' = Append(clients, client_socket)
    /\ registered' =
          IF phase = "stopped" THEN registered \cup {client_socket} ELSE registered
    /\ apc' = "unlock"
    /\ UNCHANGED <<brokerVars, httpVars, callerVars, client_socket, accepted, hpc, data, wire,
                   closed, nrecv, sentPubs, disconnected, liveAtStop, storeVars>>

\* the end of the with block
AcceptUnlock ==
    /\ apc = "unlock"
    /\ lock' = Free
    /\ apc' = "loop"
    /\ UNCHANGED <<brokerVars, httpVars, clients, callerVars, client_socket, accepted,
                   registered, hpc, data, wire, closed, nrecv, sentPubs, disconnected,
                   liveAtStop, storeVars>>

\* ---------------------------------------------------- handler threads
\* What a handler step leaves alone besides hpc and what it names.
HandlerFrame == <<brokerVars, httpVars, callerVars, acceptVars, liveAtStop>>

\* FirstDispatch if every first packet were taken for a CONNECT.
FirstDispatchAny(d) == "connack"

\* lines 68-78 and 117: a first packet that is a CONNECT is acknowledged, after
\* any other the function runs on to its finally block.
FirstDispatch(d) ==
    IF Len(d) >= 2 /\ PacketType(d[1]) = 1 THEN "connack" ELSE "close"

\* lines 63-71: the first recv() returns bytes.  (A recv() that was blocked
\* when stop() closed the socket may still return what arrives.)
RecvFirst(c) ==
    /\ hpc[c] = "recv1"
    /\ nrecv < peer.recvs
    /\ \E ch \in peer.sends :
          LET d == Slice(ch, 0, RecvFirstSize)
          IN  /\ data' = [data EXCEPT ![c] = d]
              /\ hpc' = [hpc EXCEPT ![c] = FirstDispatch(d)]
    /\ nrecv' = nrecv + 1
    /\ UNCHANGED <<HandlerFrame, clients, lock, wire, closed, sentPubs, disconnected, storeVars>>

\* lines 63-65 and 115-116: the first recv() returns b'' or raises
RecvFirstFail(c) ==
    /\ hpc[c] = "recv1"
    /\ hpc' = [hpc EXCEPT ![c] = "close"]
    /\ UNCHANGED <<HandlerFrame, clients, lock, data, wire, closed, nrecv,
                   sentPubs, disconnected, storeVars>>

\* send() on a socket: raises once close() was called on it
SendOn(c, w, bytes) == IF closed[c] THEN w ELSE Append(w, bytes)

\* lines 75-76; a raise goes to line 115
SendConnack(c) ==
    /\ hpc[c] = "connack"
    /\ wire' = [wire EXCEPT ![c] = SendOn(c, @, CONNACK)]
    /\ hpc' = [hpc EXCEPT ![c] = IF closed[c] THEN "close" ELSE "loop"]
    /\ UNCHANGED <<HandlerFrame, clients, lock, data, closed, nrecv, sentPubs, disconnected,
                   storeVars>>

\* line 80 (the chunk of the last turn is dead from here on)
LoopCheck(c) ==
    /\ hpc[c] = "loop"
    /\ hpc' = [hpc EXCEPT ![c] = IF running THEN "recv" ELSE "close"]
    /\ data' = [data EXCEPT ![c] = <<>>]
    /\ UNCHANGED <<HandlerFrame, clients, lock, wire, closed, nrecv,
                   sentPubs, disconnected, storeVars>>

\* Dispatch if a packet type the loop does not know ended the connection.
DispatchStrict(pub_data) ==
    LET pub_type == PacketType(pub_data[1])
    IN  IF pub_type = 3 THEN "parse"
        ELSE IF pub_type = 12 THEN "ping"
        ELSE "close"

\* The branch of lines 86-107 a chunk takes.
Dispatch(pub_data) ==
    LET pub_type == PacketType(pub_data[1])
    IN  IF pub_type = 3 THEN "parse"
        ELSE IF pub_type = 12 THEN "ping"
        ELSE IF pub_type = 14 THEN "close"
        ELSE "loop"

\* lines 82-107: recv() returns bytes
Recv(c) ==
    /\ hpc[c] = "recv"
    /\ nrecv < peer.recvs
    /\ \E ch \in peer.sends :
          LET d == Slice(ch, 0, RecvSize)
          IN  /\ data' = [data EXCEPT ![c] = d]
              /\ sentPubs' = [sentPubs EXCEPT ![c] = @ \o PublishesIn(d)]
              /\ disconnected' = [disconnected EXCEPT ![c] = PacketType(d[1]) = 14]
              /\ hpc' = [hpc EXCEPT ![c] = Dispatch(d)]
    /\ nrecv' = nrecv + 1
    /\ UNCHANGED <<HandlerFrame, clients, lock, wire, closed, storeVars>>

\* lines 83-84 and 111-113: recv() returns b'' or raises (anything but a timeout)
RecvFail(c) ==
    /\ hpc[c] = "recv"
    /\ hpc' = [hpc EXCEPT ![c] = "close"]
    /\ UNCHANGED <<HandlerFrame, clients, lock, data, wire, closed, nrecv,
                   sentPubs, disconnected, storeVars>>

\* lines 109-110: recv() raises socket.timeout
RecvTimeout(c) ==
    /\ hpc[c] = "recv"
    /\ hpc' = [hpc EXCEPT ![c] = "loop"]
    /\ UNCHANGED <<HandlerFrame, clients, lock, data, wire, closed, nrecv,
                   sentPubs, disconnected, storeVars>>

\* parse_publish returns before line 169
ParseReturn(c) ==
    /\ hpc[c] = "parse"
    /\ ~parse_publish(data[c]).ok
    /\ hpc' = [hpc EXCEPT ![c] = "ack"]
    /\ UNCHANGED <<HandlerFrame, clients, lock, data, wire, closed, nrecv,
                   sentPubs, disconnected, storeVars>>

\* parse_publish, lines 169-176, the lock taken
ParseAppend(c) ==
    /\ hpc[c] = "parse"
    /\ parse_publish(data[c]).ok
    /\ lock = Free
    /\ lock' = Handler(c)
    /\ published_messages' =
          StoreAppend(published_messages, parse_publish(data[c]), clock + 1)
    /\ clock' = clock + 1
    /\ origin' = Append(origin, c)
    /\ appended' = [appended EXCEPT ![c] = @ + 1]
    /\ cleared' = FALSE
    /\ hpc' = [hpc EXCEPT ![c] = "pub_unlock"]
    /\ UNCHANGED <<HandlerFrame, clients, data, wire, closed, nrecv, sentPubs, disconnected>>

\* ParseUnlock if the with block of parse_publish reached past its return,
\* to the acknowledgment.
ParseKeepLock(c) ==
    /\ hpc[c] = "pub_unlock"
    /\ hpc' = [hpc EXCEPT ![c] = "ack"]
    /\ UNCHANGED <<HandlerFrame, clients, lock, data, wire, closed, nrecv, sentPubs,
                   disconnected, storeVars>>

\* the end of the with block in parse_publish, and its return
ParseUnlock(c) ==
    /\ hpc[c] = "pub_unlock"
    /\ lock' = Free
    /\ hpc' = [hpc EXCEPT ![c] = "ack"]
    /\ UNCHANGED <<HandlerFrame, clients, data, wire, closed, nrecv, sentPubs, disconnected,
                   storeVars>>

\* lines 92-98; a raise of send() goes to line 111
Acknowledge(c) ==
    /\ hpc[c] = "ack"
    /\ LET puback == PubackFor(data[c])
       IN  IF puback = <<>>
              THEN /\ wire' = wire
                   /\ hpc' = [hpc EXCEPT ![c] = "loop"]
              ELSE /\ wire' = [wire EXCEPT ![c] = SendOn(c, @, puback)]
                   /\ hpc' = [hpc EXCEPT ![c] = IF closed[c] THEN "close" ELSE "loop"]
    /\ UNCHANGED <<HandlerFrame, clients, lock, data, closed, nrecv, sentPubs, disconnected,
                   storeVars>>

\* lines 100-103
Pingresp(c) ==
    /\ hpc[c] = "ping"
    /\ wire' = [wire EXCEPT ![c] = SendOn(c, @, PINGRESP)]
    /\ hpc' = [hpc EXCEPT ![c] = IF closed[c] THEN "close" ELSE "loop"]
    /\ UNCHANGED <<HandlerFrame, clients, lock, data, closed, nrecv, sentPubs, disconnected,
                   storeVars>>

\* line 118
CloseSocket(c) ==
    /\ hpc[c] = "close"
    /\ closed' = [closed EXCEPT ![c] = TRUE]
    /\ hpc' = [hpc EXCEPT ![c] = "remove"]
    /\ data' = [data EXCEPT ![c] = <<>>]
    /\ UNCHANGED <<HandlerFrame, clients, lock, wire, nrecv, sentPubs, disconnected,
                   storeVars>>

\* RemoveFrom if the cleanup emptied the list, as stop() does.
RemoveEvery(l, c) == <<>>

\* lines 120-121
RemoveFrom(l, c) == IF c \in Range(l) THEN ListRemove(l, c) ELSE l

\* lines 119-121, the lock taken
RemoveClient(c) ==
    /\ hpc[c] = "remove" /\ lock = Free
    /\ lock' = Handler(c)
    /\ clients' = RemoveFrom(clients, c)
    /\ hpc' = [hpc EXCEPT ![c] = "rm_unlock"]
    /\ UNCHANGED <<HandlerFrame, data, wire, closed, nrecv, sentPubs, disconnected, storeVars>>

\* the end of the with block, line 122, the thread ends
RemoveUnlock(c) ==
    /\ hpc[c] = "rm_unlock"
    /\ lock' = Free
    /\ hpc' = [hpc EXCEPT ![c] = "done"]
    /\ UNCHANGED <<HandlerFrame, clients, data, wire, closed, nrecv, sentPubs, disconnected,
                   storeVars>>

\* ------------------------------------------------------ specification
HandlerStep(c) ==
    \/ RecvFirst(c) \/ RecvFirstFail(c) \/ SendConnack(c) \/ LoopCheck(c)
    \/ Recv(c) \/ RecvFail(c) \/ RecvTimeout(c)
    \/ ParseReturn(c) \/ ParseAppend(c) \/ ParseUnlock(c)
    \/ Acknowledge(c) \/ Pingresp(c)
    \/ CloseSocket(c) \/ RemoveClient(c) \/ RemoveUnlock(c)

AcceptStep ==
    \/ AcceptLoop \/ Accept \/ AcceptError \/ AcceptCaught
    \/ AcceptAppend \/ AcceptUnlock

StopStep ==
    StopClearRunning \/ StopCloseClients \/ StopUnlock \/ StopCloseServer

Next ==
    \/ Start
    \/ StopStep
    \/ AcceptStep
    \/ \E c \in Conns : HandlerStep(c)

StoreStep == GetMessages \/ ClearMessages \/ CallerUnlock

\* The same, with the caller reading and clearing the store at any time.
NextStore == Next \/ StoreStep

\* One connection, on which anything arrives.
Init ==
    /\ InitBroker
    /\ InitCounters
    /\ peer = [conns |-> 1, sends |-> Chunks, recvs |-> MaxRecv]

\* Several connections that publish at once.
InitPublishers ==
    /\ InitBroker
    /\ InitCounters
    /\ peer = [conns |-> MaxConns, sends |-> PublisherChunks, recvs |-> MaxRecv]

Spec == Init /\ [][Next]_vars

SpecPublishers == InitPublishers /\ [][Next]_vars

\* One publishing connection, and a caller that reads and clears the store.
InitStore ==
    /\ InitBroker
    /\ InitCounters
    /\ peer = [conns |-> 1, sends |-> PublisherChunks, recvs |-> MaxRecv]

SpecStore == InitStore /\ [][NextStore]_vars

\* One connection, on which PUBLISH packets of every shape arrive.
InitParser ==
    /\ InitBroker
    /\ InitCounters
    /\ peer = [conns |-> 1, sends |-> ParserChunks, recvs |-> MaxRecv]

SpecParser == InitParser /\ [][Next]_vars

\* Two connections side by side.
InitPair ==
    /\ InitBroker
    /\ InitCounters
    /\ peer = [conns |-> 2, sends |-> PairChunks, recvs |-> MaxRecv]

SpecPair == InitPair /\ [][Next]_vars

\* The broker while it runs: no stop().
NextRunning ==
    \/ Start
    \/ AcceptStep
    \/ \E c \in Conns : HandlerStep(c)

\* Two connections that publish at once while the broker runs, one chunk more
\* arriving than elsewhere.
InitOrder ==
    /\ InitBroker
    /\ InitCounters
    /\ peer = [conns |-> 2, sends |-> OrderChunks, recvs |-> MaxRecv + 1]

SpecOrder == InitOrder /\ [][NextRunning]_vars

\* ------------------------------------------------ the mock HTTP server
\* mock_http_server.py.  A request is handled in one step; what the server
\* answered is kept as [route, arg, code].
mqttVars ==
    <<peer, running, server_socket, clients, published_messages, lock, phase, mpc,
      result, apc, client_socket, accepted, hpc, data, wire, closed, nrecv,
      clock, origin, sentPubs, disconnected, appended, registered, liveAtStop,
      takenCleared, cleared>>

Answer(route, arg, code) ==
    Append(answered, [route |-> route, arg |-> arg, code |-> code])

\* lines 23-37: POST /api/alarm with a JSON object as body, or with the JSON
\* null, for which data.get raises after the counter was incremented
post_alarm ==
    /\ Len(answered) < MaxRequests
    /\ request_count' = request_count + 1
    /\ \E body \in {"object", "null"} :
          answered' = Answer("/api/alarm", 0, IF body = "object" THEN 200 ELSE 500)
    /\ UNCHANGED <<auth_fail_count, mqttVars>>

\* lines 50-59: POST /auth/basic with the right credentials or without
basic_auth ==
    /\ Len(answered) < MaxRequests
    /\ \E authorized \in BOOLEAN :
          IF authorized
             THEN /\ answered' = Answer("/auth/basic", 0, 200)
                  /\ UNCHANGED auth_fail_count
             ELSE /\ auth_fail_count' = auth_fail_count + 1
                  /\ answered' = Answer("/auth/basic", 0, 401)
    /\ UNCHANGED <<request_count, mqttVars>>

\* lines 101-106: the status retry_fail answers with
RetryFailStatus(count, times) == IF count < times THEN 500 ELSE 200

\* lines 96-106: POST /retry/fail/<times>
retry_fail ==
    /\ Len(answered) < MaxRequests
    /\ \E times \in 0..MaxTimes :
          answered' = Answer("/retry/fail", times, RetryFailStatus(request_count, times))
    /\ UNCHANGED <<request_count, auth_fail_count, mqttVars>>

\* lines 135-143: GET /stats; the total it reports is kept as arg
get_stats ==
    /\ Len(answered) < MaxRequests
    /\ answered' = Answer("/stats", request_count, 200)
    /\ UNCHANGED <<request_count, auth_fail_count, mqttVars>>

\* lines 145-151: POST /reset
reset_stats ==
    /\ request_count' = 0
    /\ auth_fail_count' = 0
    /\ answered' = <<>>
    /\ UNCHANGED mqttVars

NextHttp ==
    post_alarm \/ basic_auth \/ retry_fail \/ get_stats \/ reset_stats

\* The HTTP server alone; the broker is constructed and not started.
InitHttp ==
    /\ InitBroker
    /\ InitCounters
    /\ peer = [conns |-> 0, sends |-> {}, recvs |-> 0]

SpecHttp == InitHttp /\ [][NextHttp]_vars

\* ---------------------------------------------------- claim vocabulary
\* The bytes of a PUBLISH packet's packet identifier: the two bytes after the
\* topic, which follows the fixed header and the 2-byte topic length.
PacketIdentifierOf(pkt) ==
    LET lenEnd   == CHOOSE i \in 2..Len(pkt) :
                        pkt[i] < 128 /\ \A j \in 2..(i - 1) : pkt[j] >= 128
        topicLen == pkt[lenEnd + 1] * 256 + pkt[lenEnd + 2]
    IN  <<pkt[lenEnd + 2 + topicLen + 1], pkt[lenEnd + 2 + topicLen + 2]>>

\* The chunk is one whole PUBLISH packet and nothing else.
IsOnePublish(chunk) == PublishesIn(chunk) = <<chunk>>

Last(l) == l[Len(l)]

\* The handler of c is in CONNECTED and has finished with what it has read.
BetweenChunks(c) == hpc[c] \in {"loop", "recv"}

\* C1: a quality-of-service-1 PUBLISH with packet identifier id that a
\* connected handler has received and answered was answered on that connection
\* with the PUBACK 0x40 0x02 id_hi id_lo, id being the identifier that follows
\* the topic.
C1_PubackCarriesPacketIdentifier ==
    \A c \in Conns :
        (/\ hpc[c] = "loop"
         /\ data[c] # <<>>
         /\ IsOnePublish(data[c])
         /\ QosOf(data[c][1]) = 1)
        => /\ wire[c] # <<>>
           /\ Last(wire[c]) = <<64, 2>> \o PacketIdentifierOf(data[c])

\* C2: every PUBLISH packet a connected handler has received has appended
\* exactly one record: once the handler has finished with what it has read, it
\* has appended as many records as PUBLISH packets arrived.
C2_OneRecordPerPublish ==
    \A c \in Conns : BetweenChunks(c) => appended[c] = Len(sentPubs[c])

\* The record that handler c appended last.
LastRecordOf(c) ==
    published_messages[CHOOSE i \in DOMAIN origin :
                           origin[i] = c /\ \A j \in DOMAIN origin : j > i => origin[j] # c]

\* The handler of c is working on a PUBLISH whose quality of service is not 1.
UnackedPublish(c) ==
    /\ hpc[c] \in {"parse", "pub_unlock", "ack"}
    /\ QosOf(data[c][1]) # 1

ConnectPending(c) == hpc[c] = "connack"

\* The handler of c is in CONNECTED.
Connected(c) ==
    hpc[c] \in {"loop", "recv", "parse", "pub_unlock", "ack", "ping"}

\* C4 as claimed: a handler that read CONNECT as its first packet writes, as
\* its next step, exactly 0x20 0x02 0x00 0x00 and enters CONNECTED.
C4_ConnectAlwaysAcknowledged ==
    [][\A c \in Conns :
          (ConnectPending(c) /\ hpc'[c] # hpc[c])
          => (wire'[c] = <<<<32, 2, 0, 0>>>> /\ hpc'[c] = "loop")]_vars

\* C4 as amended: the same unless stop() has closed the socket by then, in
\* which case nothing is written and the handler closes; a connection in
\* CONNECTED has been sent 0x20 0x02 0x00 0x00 first, and so has the
\* connection of every record in the store.
C4_ConnackBeforePublish ==
    /\ [][\A c \in Conns :
            (ConnectPending(c) /\ hpc'[c] # hpc[c])
            => IF closed[c]
                  THEN wire'[c] = <<>> /\ hpc'[c] = "close"
                  ELSE wire'[c] = <<<<32, 2, 0, 0>>>> /\ hpc'[c] = "loop"]_vars
    /\ [](\A c \in Conns :
            /\ ConnectPending(c)
               => Len(data[c]) >= 2 /\ PacketType(data[c][1]) = 1 /\ wire[c] = <<>>
            /\ Connected(c) => wire[c] # <<>> /\ wire[c][1] = <<32, 2, 0, 0>>
            /\ wire[c] # <<>> => wire[c][1] = <<32, 2, 0, 0>>)
    /\ [](\A i \in DOMAIN origin :
            wire[origin[i]] # <<>> /\ wire[origin[i]][1] = <<32, 2, 0, 0>>)

\* C4 witness: a record is in the store, of a connection that sent CONNECT
\* first and was sent the CONNACK.
C4_Witness ==
    \E c \in Conns :
        /\ c \in Range(origin)
        /\ wire[c][1] = <<32, 2, 0, 0>>
        /\ Connected(c)

\* The record of one PUBLISH packet, its timestamp apart.
SameRecord(rec, pkt) ==
    LET want == parse_publish(pkt)
    IN  /\ rec.topic = want.topic
        /\ rec.payload = want.payload
        /\ rec.qos = want.qos
        /\ rec.retain = want.retain

\* No clear_messages() has removed a record.
NothingCleared == Len(published_messages) = clock

\* C5: one connected client has sent N PUBLISH packets, the handler has read
\* all their bytes and finished with them, nothing was cleared: the list that
\* get_published_messages() returns then has exactly N records, the i-th the
\* i-th PUBLISH sent.
C5_SnapshotHasEveryPublish ==
    (/\ mpc = "get_unlock"
     /\ BetweenChunks(1)
     /\ NothingCleared)
    => /\ Len(Deref(result)) = Len(sentPubs[1])
       /\ \A i \in 1..Len(sentPubs[1]) :
             i <= Len(Deref(result)) /\ SameRecord(Deref(result)[i], sentPubs[1][i])

RECURSIVE SumOver(_, _)
SumOver(f, S) ==
    IF S = {} THEN 0
    ELSE LET x == CHOOSE y \in S : TRUE IN f[x] + SumOver(f, S \ {x})

\* Every handler has finished with what it has read.
AllQuiet == \A c \in Conns : hpc[c] \notin {"parse", "pub_unlock"}

\* C6: two connections publish at once, N1 packets on one and N2 on the other:
\* whenever the handlers have finished with what they have read, the store
\* holds N1 + N2 records.
C6_NoPublishLostOrDoubled ==
    (/\ AllQuiet
     /\ \E c1, c2 \in Conns : c1 # c2 /\ sentPubs[c1] # <<>> /\ sentPubs[c2] # <<>>)
    => Len(published_messages) = SumOver([c \in Conns |-> Len(sentPubs[c])], Conns)

\* C7: once stop() has returned, every connection accepted before stop() was
\* called is closed.
C7_StopClosesEveryConnection ==
    phase = "stopped" => \A c \in liveAtStop : closed[c]

\* C8: once stop() has returned on a started broker, the running flag is
\* false and the listening socket closed, and the accept loop accepts no
\* connection and appends none to the live-connection set any more.
C8_NothingAcceptedAfterStop ==
    /\ [](phase = "stopped" => ~running /\ server_socket = "closed")
    /\ [][phase = "stopped" => accepted' = accepted /\ Len(clients') <= Len(clients)]_vars

\* C9: get_published_messages() that follows clear_messages(), no append
\* between them, returns the empty list, whatever the store held before.
C9_ClearThenSnapshotIsEmpty ==
    (mpc = "get_unlock" /\ takenCleared) => Deref(result) = <<>>

\* C9 witness: records were appended, then cleared, and the snapshot taken
\* after the clear has returned.
C9_Witness ==
    /\ mpc = "get_unlock"
    /\ takenCleared
    /\ clock >= 2
    /\ Deref(result) = <<>>

\* A fully formed record.
FullyFormed(rec) ==
    /\ DOMAIN rec = {"topic", "payload", "qos", "retain", "timestamp"}
    /\ rec.topic \in Seq(Nat)
    /\ rec.payload \in Seq(Nat)
    /\ rec.qos \in 0..3
    /\ rec.retain \in BOOLEAN
    /\ rec.timestamp \in Nat

\* C10: the list get_published_messages() returned reads the same after every
\* step that is not the next get_published_messages(), an append and a
\* clear_messages() included, and each of its elements is a fully formed
\* record.
C10_SnapshotIsACopy ==
    /\ [][result' = result => Deref(result)' = Deref(result)]_vars
    /\ [](\A i \in 1..Len(Deref(result)) : FullyFormed(Deref(result)[i]))

\* C10 witness: the caller holds a snapshot of two records while the store,
\* cleared and appended to since, holds one other record.
C10_Witness ==
    /\ result.ref # "none"
    /\ Len(Deref(result)) = 2
    /\ Len(published_messages) = 1
    /\ published_messages[1].timestamp = 3

\* ------------------------------------------------- C11: what is stored
\* The index of the last byte of a packet's remaining-length field: the first
\* byte after the packet's first whose 0x80 bit is clear.
LengthEnd(pkt) ==
    CHOOSE i \in 2..Len(pkt) : pkt[i] < 128 /\ \A j \in 2..(i - 1) : pkt[j] >= 128

TopicLengthOf(pkt) == pkt[LengthEnd(pkt) + 1] * 256 + pkt[LengthEnd(pkt) + 2]

\* The topic-length bytes that follow the 2-byte topic length.
TopicBytesOf(pkt) ==
    SubSeq(pkt, LengthEnd(pkt) + 3, LengthEnd(pkt) + 2 + TopicLengthOf(pkt))

\* Bits 1-2 and bit 0 of the first byte.
QosBitsOf(pkt) == (pkt[1] % 8) \div 2
RetainBitOf(pkt) == pkt[1] % 2 = 1

\* The bytes after the topic and, when qos is not 0, after the 2-byte packet
\* identifier.
PayloadBytesOf(pkt) ==
    LET topicEnd == LengthEnd(pkt) + 2 + TopicLengthOf(pkt)
        idEnd    == IF QosBitsOf(pkt) # 0 THEN topicEnd + 2 ELSE topicEnd
    IN  SubSeq(pkt, idEnd + 1, Len(pkt))

\* The UTF-8 bytes of a text (code points up to U+FFFF).
RECURSIVE Utf8Encode(_)
Utf8Encode(text) ==
    IF \A i \in DOMAIN text : text[i] < 128 THEN text
    ELSE LET cp == text[1]
             head == IF cp < 128 THEN <<cp>>
                     ELSE IF cp < 2048 THEN <<192 + (cp \div 64), 128 + (cp % 64)>>
                     ELSE <<224 + (cp \div 4096), 128 + ((cp \div 64) % 64), 128 + (cp % 64)>>
         IN  head \o Utf8Encode(Tail(text))

\* The bytes are the UTF-8 form of some text.
IsUtf8(bs) ==
    \A i \in DOMAIN bs :
        \/ bs[i] < 128
        \/ /\ bs[i] >= 194 /\ bs[i] <= 223
           /\ i < Len(bs) /\ IsCont(bs[i + 1])
        \/ /\ IsCont(bs[i])
           /\ i > 1 /\ bs[i - 1] >= 194 /\ bs[i - 1] <= 223

\* The record is the one a PUBLISH packet stands for; the payload is compared
\* as bytes where asBytes, as the text the bytes decode to otherwise.
RecordOf(rec, pkt, asBytes) ==
    /\ Utf8Encode(rec.topic) = TopicBytesOf(pkt)
    /\ rec.qos = QosBitsOf(pkt)
    /\ rec.retain = RetainBitOf(pkt)
    /\ IF asBytes \/ IsUtf8(PayloadBytesOf(pkt))
          THEN Utf8Encode(rec.payload) = PayloadBytesOf(pkt)
          ELSE rec.payload = Utf8Ignore(PayloadBytesOf(pkt))

NotConnectFirst(c) ==
    /\ hpc[c] \in {"recv1", "close"}
    /\ data[c] # <<>>
    /\ wire[c] = <<>>
    /\ (data[c][1] \div 16) % 16 # 1

\* The handler's thread is on its way out or has ended.
Leaving(c) == hpc[c] \in {"close", "remove", "rm_unlock", "done"}

HandlingUndecodable(c) ==
    /\ hpc[c] \in {"parse", "ack"}
    /\ ~parse_publish(data[c]).ok

\* C13: while a handler handles a PUBLISH whose decoding fails, that of a
\* quality-of-service-1 PUBLISH included, it appends no record and writes
\* nothing to the connection, and it goes on to the loop's next turn.
C13_UndecodablePublishIsDropped ==
    [][\A c \in Conns :
          HandlingUndecodable(c)
          => /\ appended'[c] = appended[c]
             /\ wire'[c] = wire[c]
             /\ hpc'[c] \in {"parse", "ack", "loop"}]_vars

\* ------------------------------- C14: the live-connection set after CLOSED
\* accept_clients has registered connection c and released the lock.
RegistrationDone(c) ==
    /\ c <= accepted
    /\ ~(client_socket = c /\ apc \in {"append", "unlock"})

\* C14: once the accept loop has registered a connection and the connection's
\* handler has ended, the connection is not in the live-connection set.
C14_ClosedConnectionNotLive ==
    \A c \in Conns :
        (hpc[c] = "done" /\ RegistrationDone(c)) => c \notin Range(clients)

\* ------------------------------------------ C15: the qos of a record
\* C15: every record in the store has a quality-of-service level of 0, 1 or
\* 2, whatever the flags of the PUBLISH packets that arrived.
C15_QosIsZeroOneOrTwo ==
    \A i \in DOMAIN published_messages : published_messages[i].qos \in {0, 1, 2}

\* ---------------------------------------------------- C16: DISCONNECT
\* C16: once a connected handler has read a DISCONNECT it is in CLOSED for
\* good: it only closes the socket, removes the connection and ends; once it
\* has ended the socket is closed and, the accept loop having registered the
\* connection, the connection is not in the live-connection set; and from the
\* DISCONNECT on it appends no record and writes nothing.
C16_DisconnectIsTerminal ==
    [][\A c \in Conns :
          disconnected'[c]
          => /\ hpc'[c] \in {"close", "remove", "rm_unlock", "done"}
             /\ hpc'[c] \in {"remove", "rm_unlock", "done"} => closed'[c]
             /\ (hpc'[c] = "done" /\ RegistrationDone(c)') => c \notin Range(clients')
             /\ disconnected[c] => (appended'[c] = appended[c] /\ wire'[c] = wire[c])]_vars

\* ------------------------------------- C17: a failure stays where it is
\* A step by which the handler of c leaves its work for CLOSED (a read that
\* fails or returns nothing, a write that raises, a first packet it does not
\* take), or a step of its cleanup.
ClosingStep(c) ==
    /\ hpc'[c] # hpc[c]
    /\ hpc'[c] \in {"close", "remove", "rm_unlock", "done"}

\* C17: a step by which one connection's handler goes to CLOSED or cleans up
\* leaves the running flag, the listening socket, the accept loop and the
\* store as they are, and for every other connection leaves its handler, its
\* socket, what was written to it and its place in the live-connection set as
\* they are.
C17_FailureStaysInOneConnection ==
    [][\A c \in Conns :
          ClosingStep(c)
          => /\ running' = running
             /\ server_socket' = server_socket /\ phase' = phase
             /\ apc' = apc /\ accepted' = accepted
             /\ published_messages' = published_messages
             /\ \A d \in Conns \ {c} :
                   /\ hpc'[d] = hpc[d] /\ data'[d] = data[d]
                   /\ closed'[d] = closed[d] /\ wire'[d] = wire[d]
                   /\ (d \in Range(clients')) = (d \in Range(clients))]_vars

\* One connection's handler has ended while the broker runs, the other
\* connection is registered and connected, and a record is in the store.
C17_Witness ==
    \E c, d \in Conns :
        /\ c # d /\ hpc[c] = "done" /\ running
        /\ Connected(d) /\ d \in Range(clients) /\ ~closed[d]
        /\ published_messages # <<>>

\* ------------------------------------------------------- C18: PINGREQ
\* C18 as stated: a connected handler that has read a PINGREQ writes the two
\* bytes 0xD0 0x00 and nothing else, and goes on in CONNECTED; the store and
\* the live-connection set stay as they are.
C18_PingreqAlwaysAnswered ==
    [][\A c \in Conns :
          (hpc[c] = "ping" /\ hpc'[c] # "ping")
          => /\ wire'[c] = Append(wire[c], <<208, 0>>)
             /\ hpc'[c] = "loop"
             /\ published_messages' = published_messages
             /\ clients' = clients]_vars

\* C18: a connected handler that has read a PINGREQ writes the two bytes
\* 0xD0 0x00 and nothing else, and goes on in CONNECTED, unless stop() has
\* closed its socket, in which case it writes nothing and goes to CLOSED;
\* either way the store and the live-connection set stay as they are.
C18_PingreqAnsweredWhileOpen ==
    [][\A c \in Conns :
          (hpc[c] = "ping" /\ hpc'[c] # "ping")
          => /\ IF closed[c]
                   THEN wire'[c] = wire[c] /\ hpc'[c] = "close"
                   ELSE wire'[c] = Append(wire[c], <<208, 0>>) /\ hpc'[c] = "loop"
             /\ published_messages' = published_messages
             /\ clients' = clients]_vars

\* A PINGREQ has been answered.
C18_Witness ==
    \E c \in Conns :
        /\ hpc[c] = "loop" /\ data[c] = <<192, 0>>
        /\ Last(wire[c]) = <<208, 0>>

\* ------------------------------------------- C19: any other packet type
\* The chunk's first byte has a type other than PUBLISH, PINGREQ, DISCONNECT.
IsOtherType(chunk) ==
    chunk # <<>> /\ (chunk[1] \div 16) % 16 \notin {3, 12, 14}

\* C19: a connected handler that reads a packet of a type other than PUBLISH,
\* PINGREQ and DISCONNECT writes nothing, appends nothing and does not close:
\* it is back at the head of its loop, from where, the broker running, it
\* reads again.
C19_OtherTypesAreIgnored ==
    [][\A c \in Conns :
          /\ (hpc[c] = "recv" /\ IsOtherType(data'[c]))
                => /\ hpc'[c] = "loop"
                   /\ wire'[c] = wire[c]
                   /\ closed'[c] = closed[c]
                   /\ published_messages' = published_messages
          /\ (hpc[c] = "loop" /\ IsOtherType(data[c]) /\ hpc'[c] # "loop" /\ running)
                => /\ hpc'[c] = "recv"
                   /\ wire'[c] = wire[c]
                   /\ closed'[c] = closed[c]
                   /\ published_messages' = published_messages]_vars

\* A SUBSCRIBE has been read and passed over.
C19_Witness ==
    \E c \in Conns : hpc[c] = "loop" /\ data[c] = <<130, 0>> /\ ~closed[c]

\* ------------------------------------------------------ C20: the lock
\* C20: whoever holds the lock has just done its operation on the
\* live-connection set or on the store and releases the lock with its next
\* step: no thread holds the lock where it calls accept, recv or send.
C20_LockOnlyAroundListOperations ==
    /\ lock = Acceptor => apc = "unlock"
    /\ lock = Caller => mpc \in {"stop_unlock", "get_unlock", "clear_unlock"}
    /\ \A c \in Conns :
          /\ lock = Handler(c) => hpc[c] \in {"pub_unlock", "rm_unlock"}
          /\ hpc[c] \in {"recv1", "connack", "recv", "ack", "ping"} => lock # Handler(c)
    /\ apc = "accept" => lock # Acceptor

\* A handler holds the lock for its removal while stop() waits for the lock
\* and the accept thread is in accept.
C20_Witness ==
    \E c \in Conns :
        /\ lock = Handler(c) /\ hpc[c] = "rm_unlock"
        /\ mpc = "stop_lock" /\ apc = "accept"

\* ------------------------------------------ C21: errors in the accept loop
\* stop() has cleared the running flag.
StopHasBegun ==
    ~running /\ (mpc \in {"stop_lock", "stop_unlock", "stop_server"} \/ phase = "stopped")

\* C21: an accept() that raises takes the accept loop through its except block
\* back to the head of the loop, not out of it; the loop ends only once stop()
\* has cleared the running flag, and while the flag is set it has not ended.
C21_AcceptErrorKeepsLoop ==
    [][/\ (apc = "accept" /\ apc' # apc) => apc' \in {"append", "error"}
       /\ (apc = "error" /\ apc' # apc) => apc' = "loop"
       /\ (apc # "done" /\ apc' = "done") => (apc = "loop" /\ StopHasBegun)
       /\ running' => apc' # "done"]_vars

\* accept() has raised, after a connection was accepted, while the broker runs.
C21_Witness ==
    apc = "error" /\ running /\ accepted = 1

\* ------------------------------------- C22: the order of one connection
\* The place the store's i-th record has among the records of its connection.
PlaceInConnection(i) ==
    Cardinality({j \in 1..i : origin[j] = origin[i]})

OnlyRetries(n) ==
    /\ answered # <<>>
    /\ \A k \in DOMAIN answered :
          answered[k].route = "/retry/fail" /\ answered[k].arg = n

\* C23: from reset statistics, a client that does nothing but POST to
\* /retry/fail/N, N >= 1, was answered 500 for its first N requests and 200
\* for every request after them.
C23_FirstNFailThenSucceed ==
    \A n \in 1..MaxTimes :
        OnlyRetries(n)
        => \A k \in DOMAIN answered :
              answered[k].code = IF k <= n THEN 500 ELSE 200
====
